---- MODULE Spec2Model ----
(***************************************************************************)
(* SwapService.execute_swap (services/swap.py): one run of the swap flow   *)
(* against the aggregator client (OKXClient) and the blockchain helper     *)
(* (Web3Helper), with every external call able to succeed or to raise.     *)
(***************************************************************************)
EXTENDS Integers, Sequences, FiniteSets, TLC

VARIABLES
    pc,              \* position of the run inside execute_swap and its callees
    chain_id,        \* argument chain_id
    from_token,      \* argument from_token (a sequence of characters)
    amount,          \* argument amount, in whole token units
    wallet_name,     \* argument wallet_name
    wallet,          \* local `wallet` of execute_swap
    raw_amount,      \* local `raw_amount` of execute_swap
    current_allowance, \* local `current_allowance` of check_and_approve
    gas_price,       \* local `gas_price` of check_and_approve
    nonce,           \* local `nonce` (of check_and_approve, then of execute_swap)
    approve_tx,      \* local `approve_tx` of execute_swap
    approve_data,    \* local `approve_data` of check_and_approve
    swap_amount,     \* `raw_amount` computed again inside create_swap_transaction
    swap_data,       \* local `swap_data` of execute_swap
    result,          \* value returned by execute_swap
    exc,             \* exception in flight through the except/raise handlers
    raised,          \* exception that left execute_swap
    allowance,       \* chain: ERC20 allowance of each owner for the spender
    txCount,         \* chain: transaction count of each account
    pending,         \* chain: signed transactions accepted and not yet mined
    mined,           \* chain: hashes of mined transactions
    calls,           \* history: external calls made, in order
    broadcast,       \* history: transactions sent successfully, in order
    firstError       \* history: the first error raised by any step

vars == <<pc, chain_id, from_token, amount, wallet_name, wallet, raw_amount,
          current_allowance, gas_price, nonce, approve_tx, approve_data,
          swap_amount, swap_data, result, exc, raised, allowance, txCount,
          pending, mined, calls, broadcast, firstError>>

locals == <<wallet, raw_amount, current_allowance, gas_price, nonce,
            approve_tx, approve_data, swap_amount, swap_data>>
inputs == <<chain_id, from_token, amount, wallet_name>>
chain  == <<allowance, txCount, pending, mined>>

\* ---------------------------------------------------------------- bounds
MaxAmount    == 2   \* amounts are 1..MaxAmount token units
MaxDecimals  == 1   \* token decimals are 0..MaxDecimals
MaxAllowance == 2   \* initial allowances are 0..MaxAllowance
MaxCount     == 1   \* initial transaction counts are 0..MaxCount
MaxGasPrice  == 2   \* gas prices are 1..MaxGasPrice

\* ----------------------------------------------------------- configuration
None    == <<>>          \* Python None (and the only falsy hash value)
NoError == "none"

\* config.settings.WALLET_CONFIG: a default wallet and one more configured one
WALLET_CONFIG ==
    [default |-> [address |-> "addrDefault", private_key |-> "keyDefault"],
     hot     |-> [address |-> "addrHot",     private_key |-> "keyHot"]]

WalletNames == {"default", "hot", "unknown"}
Addresses   == {WALLET_CONFIG[w].address : w \in DOMAIN WALLET_CONFIG}

\* the account a private key signs for
KeyAddress(key) ==
    WALLET_CONFIG[CHOOSE w \in DOMAIN WALLET_CONFIG :
                     WALLET_CONFIG[w].private_key = key].address

\* config.settings.NATIVE_TOKENS: chain "1" is configured, chain "999" is not
NATIVE_TOKENS == [c \in {"1"} |-> [decimals |-> 1]]
ChainIds      == {"1", "999"}

\* token addresses, as character sequences (shortened from 40 hex digits)
NativeSentinel == <<"e", "e">>
Tokens == { <<"e", "e">>, <<"E", "e">>, <<"E", "E">>,
            <<"a", "e">>, <<"A", "E">> }

\* str.lower()
LowerChar(c) == CASE c = "E" -> "e" [] c = "A" -> "a" [] OTHER -> c
Lower(s)     == [i \in DOMAIN s |-> LowerChar(s[i])]

\* token_address.lower() == "0xeeee...eeee" in _get_amount_in_wei (line 79)
IsNativeAmount(token) == Lower(token) = NativeSentinel

\* from_token.lower() != "0xeeee...eeee" in execute_swap (line 138), negated
IsNative_noLower(token) == token = NativeSentinel
IsNative(token) == Lower(token) = NativeSentinel

\* current_allowance < int(amount)  (line 38)
NeedsApproval_orEqual(allow, amt) == allow <= amt
NeedsApproval(allow, amt) == allow < amt

\* `if approve_tx:`  (line 146)
Truthy(h) == h # None

\* where execute_swap continues once check_and_approve has returned `tx`
\* (lines 146-150): wait for the receipt of a truthy hash, else go on
AfterApprove_noWait(tx) == "create_begin"
AfterApprove(tx) == IF Truthy(tx) THEN "wait_receipt" ELSE "create_begin"

\* the bare `raise` of the except blocks re-raises the exception caught
ReRaise_wrap(e, handler) == handler
ReRaise(e, handler) == e

\* the except block that catches an error raised at a position
Handler_swallow(at) ==
    CASE at = "amount1" -> "amount_except1"
      [] at = "amount2" -> "amount_except2"
      [] at = "approve_send" -> "create_begin"
      [] at \in {"cna_begin", "get_approve_transaction", "get_allowance",
                 "gas_price", "approve_nonce"} -> "cna_except"
      [] at \in {"create_begin", "get_swap"} -> "create_except"
      [] OTHER -> "exec_except"
Handler(at) ==
    CASE at = "amount1" -> "amount_except1"
      [] at = "amount2" -> "amount_except2"
      [] at \in {"cna_begin", "get_approve_transaction", "get_allowance",
                 "gas_price", "approve_nonce", "approve_send"} -> "cna_except"
      [] at \in {"create_begin", "get_swap"} -> "create_except"
      [] OTHER -> "exec_except"

\* WALLET_CONFIG.get(wallet_name, WALLET_CONFIG["default"])  (line 129)
WalletGet(name) ==
    IF name \in DOMAIN WALLET_CONFIG THEN WALLET_CONFIG[name]
                                     ELSE WALLET_CONFIG["default"]

\* self.wallet_config = WALLET_CONFIG["default"]  (line 14)
wallet_config == WALLET_CONFIG["default"]

\* Web3Helper.parse_token_amount(amount, decimals): amount * 10 ** decimals
RECURSIVE Pow10(_)
Pow10(d) == IF d = 0 THEN 1 ELSE 10 * Pow10(d - 1)
parse_token_amount(a, d) == a * Pow10(d)

\* int(x * 1.5)
Pad(x) == (x * 3) \div 2

\* hash of a signed transaction: determined by the signer and the content
TxHash(tx, key) == <<key, tx.nonce, tx.to, tx.data[1]>>

\* ----------------------------------------------------------------- history
Call(name, ok, arg) == [name |-> name, ok |-> ok, arg |-> arg]

Log(name, ok, arg) == calls' = Append(calls, Call(name, ok, arg))

\* an error raised by step `name` enters the except block enclosing pc
Fail(name) ==
    /\ pc' = Handler(pc)
    /\ exc' = name
    /\ firstError' = IF firstError = NoError THEN name ELSE firstError

\* a step that raises nothing moves on to position p
Goto(p) ==
    /\ pc' = p
    /\ UNCHANGED <<exc, firstError>>

\* ------------------------------------------------------------------- Init
Init ==
    /\ pc = "begin"
    /\ chain_id \in ChainIds
    /\ from_token \in Tokens
    /\ amount \in 1..MaxAmount
    /\ wallet_name \in WalletNames
    /\ wallet = None
    /\ raw_amount = 0
    /\ current_allowance = 0
    /\ gas_price = 0
    /\ nonce = 0
    /\ approve_tx = None
    /\ approve_data = None
    /\ swap_amount = 0
    /\ swap_data = None
    /\ result = None
    /\ exc = NoError
    /\ raised = NoError
    /\ allowance \in [Addresses -> 0..MaxAllowance]
    /\ txCount \in [Addresses -> 0..MaxCount]
    /\ pending = {}
    /\ mined = {}
    /\ calls = <<>>
    /\ broadcast = <<>>
    /\ firstError = NoError

\* ---------------------------------------------------------------- actions

\* lines 129-132: pick the wallet, get the Web3Helper instance
Begin ==
    /\ pc = "begin"
    /\ wallet' = WalletGet(wallet_name)
    /\ \/ Goto("amount1")
       \/ Fail("get_instance")
    /\ UNCHANGED <<inputs, raw_amount, current_allowance, gas_price, nonce,
                   approve_tx, approve_data, swap_amount, swap_data, result,
                   raised, chain, calls, broadcast>>

\* line 86: str(parse_token_amount(amount, decimals)) stored by the caller,
\* raw_amount at line 135 (site 1), raw_amount of create_swap_transaction at
\* line 99 (site 2); parse_token_amount may raise
ParseInto(site, d) ==
    \/ /\ site = 1
       /\ raw_amount' = parse_token_amount(amount, d)
       /\ Goto(IF IsNative(from_token) THEN "create_begin" ELSE "cna_begin")
       /\ UNCHANGED swap_amount
    \/ /\ site = 2
       /\ swap_amount' = parse_token_amount(amount, d)
       /\ Goto("get_swap")
       /\ UNCHANGED raw_amount
    \/ /\ Fail("parse_token_amount")
       /\ UNCHANGED <<raw_amount, swap_amount>>

\* lines 77-86: _get_amount_in_wei, called at line 135 (site 1) and at
\* line 99 (site 2); the branch of line 138 follows the first call
GetAmountInWei(site) ==
    /\ pc = (IF site = 1 THEN "amount1" ELSE "amount2")
    /\ \/ /\ IsNativeAmount(from_token)
          /\ chain_id \notin DOMAIN NATIVE_TOKENS
          /\ Fail("ValueError")
          /\ UNCHANGED <<raw_amount, swap_amount, calls>>
       \/ /\ IsNativeAmount(from_token)
          /\ chain_id \in DOMAIN NATIVE_TOKENS
          /\ ParseInto(site, NATIVE_TOKENS[chain_id].decimals)
          /\ UNCHANGED calls
       \/ /\ ~IsNativeAmount(from_token)
          /\ \E d \in 0..MaxDecimals :
                /\ Log("get_token_decimals", TRUE, None)
                /\ ParseInto(site, d)
       \/ /\ ~IsNativeAmount(from_token)
          /\ Log("get_token_decimals", FALSE, None)
          /\ Fail("get_token_decimals")
          /\ UNCHANGED <<raw_amount, swap_amount>>
    /\ UNCHANGED <<inputs, wallet, current_allowance, gas_price, nonce,
                   approve_tx, approve_data, swap_data, result, raised, chain,
                   broadcast>>

\* lines 87-89: except block of _get_amount_in_wei
AmountExcept(site) ==
    /\ pc = (IF site = 1 THEN "amount_except1" ELSE "amount_except2")
    /\ exc' = ReRaise(exc, "_get_amount_in_wei")
    /\ pc' = (IF site = 1 THEN "exec_except" ELSE "create_except")
    /\ UNCHANGED <<inputs, locals, result, raised, chain, calls, broadcast,
                   firstError>>

\* line 19: check_and_approve gets the Web3Helper instance
CnaBegin ==
    /\ pc = "cna_begin"
    /\ \/ Goto("get_approve_transaction")
       \/ Fail("get_instance")
    /\ UNCHANGED <<inputs, locals, result, raised, chain, calls, broadcast>>

\* lines 22-28: fetch the approval transaction, read its spender address
GetApproveTransaction ==
    /\ pc = "get_approve_transaction"
    /\ \/ /\ Log("get_approve_transaction", TRUE, None)
          /\ approve_data' = [spenderAddress |-> "spender",
                              data |-> <<"approve", raw_amount>>]
          /\ Goto("get_allowance")
       \/ /\ Log("get_approve_transaction", TRUE, None)
          /\ Fail("KeyError")
          /\ UNCHANGED approve_data
       \/ /\ Log("get_approve_transaction", FALSE, None)
          /\ Fail("get_approve_transaction")
          /\ UNCHANGED approve_data
    /\ UNCHANGED <<inputs, wallet, raw_amount, current_allowance, gas_price,
                   nonce, approve_tx, swap_amount, swap_data, result, raised,
                   chain, broadcast>>

\* lines 31-38 and 59: read the allowance; return None when it suffices
GetAllowance ==
    /\ pc = "get_allowance"
    /\ \/ /\ Log("get_allowance", TRUE, None)
          /\ current_allowance' = allowance[wallet.address]
          /\ IF NeedsApproval(allowance[wallet.address], raw_amount)
                THEN Goto("gas_price")
                ELSE Goto(AfterApprove(None))
       \/ /\ Log("get_allowance", FALSE, None)
          /\ Fail("get_allowance")
          /\ UNCHANGED current_allowance
    /\ UNCHANGED <<inputs, wallet, raw_amount, gas_price, nonce, approve_tx,
                   approve_data, swap_amount, swap_data, result, raised, chain,
                   broadcast>>

\* line 42: web3.eth.gas_price
GasPrice ==
    /\ pc = "gas_price"
    /\ \/ /\ Log("gas_price", TRUE, None)
          /\ \E g \in 1..MaxGasPrice : gas_price' = g
          /\ Goto("approve_nonce")
       \/ /\ Log("gas_price", FALSE, None)
          /\ Fail("gas_price")
          /\ UNCHANGED gas_price
    /\ UNCHANGED <<inputs, wallet, raw_amount, current_allowance, nonce,
                   approve_tx, approve_data, swap_amount, swap_data, result,
                   raised, chain, broadcast>>

\* line 43: nonce = get_transaction_count(owner_address)
ApproveNonce ==
    /\ pc = "approve_nonce"
    /\ \/ /\ Log("get_transaction_count", TRUE, None)
          /\ nonce' = txCount[wallet.address]
          /\ Goto("approve_send")
       \/ /\ Log("get_transaction_count", FALSE, None)
          /\ Fail("get_transaction_count")
          /\ UNCHANGED nonce
    /\ UNCHANGED <<inputs, wallet, raw_amount, current_allowance, gas_price,
                   approve_tx, approve_data, swap_amount, swap_data, result,
                   raised, chain, broadcast>>

\* Web3Helper.send_transaction(transaction, private_key): sign with the key
\* and submit; the node takes a transaction whose nonce is not used up yet
SendTransaction(tx, key) ==
    /\ tx.nonce >= txCount[KeyAddress(key)]
    /\ pending' = pending \cup {[from |-> KeyAddress(key), nonce |-> tx.nonce,
                                 hash |-> TxHash(tx, key), data |-> tx.data]}
    /\ broadcast' = Append(broadcast, [tx |-> tx, key |-> key,
                                       hash |-> TxHash(tx, key)])
    /\ UNCHANGED <<allowance, txCount, mined>>

\* lines 45-53: the approval transaction
ApproveTransaction ==
    [nonce |-> nonce, to |-> from_token, gasPrice |-> Pad(gas_price),
     data |-> approve_data.data, value |-> 0, chainId |-> chain_id]

\* lines 55-57 and 146: send the approval, signed with self.wallet_config's
\* key; return its hash to execute_swap
ApproveSend ==
    /\ pc = "approve_send"
    /\ LET tx  == ApproveTransaction
           key == wallet_config.private_key
       IN \/ /\ SendTransaction(tx, key)
             /\ Log("send_transaction", TRUE, TxHash(tx, key))
             /\ approve_tx' = TxHash(tx, key)
             /\ Goto(AfterApprove(TxHash(tx, key)))
          \/ /\ Log("send_transaction", FALSE, TxHash(tx, key))
             /\ Fail("send_transaction")
             /\ UNCHANGED <<approve_tx, chain, broadcast>>
    /\ UNCHANGED <<inputs, wallet, raw_amount, current_allowance, gas_price,
                   nonce, approve_data, swap_amount, swap_data, result,
                   raised>>

\* lines 61-63: except block of check_and_approve
CnaExcept ==
    /\ pc = "cna_except"
    /\ exc' = ReRaise(exc, "check_and_approve")
    /\ pc' = "exec_except"
    /\ UNCHANGED <<inputs, locals, result, raised, chain, calls, broadcast,
                   firstError>>

\* line 147: wait_for_transaction_receipt(approve_tx) returns once the
\* transaction is mined, and raises on a timeout or an RPC error
WaitReceipt ==
    /\ pc = "wait_receipt"
    /\ \/ /\ approve_tx \in mined
          /\ Log("wait_for_transaction_receipt", TRUE, approve_tx)
          /\ Goto("create_begin")
       \/ /\ Log("wait_for_transaction_receipt", FALSE, approve_tx)
          /\ Fail("wait_for_transaction_receipt")
    /\ UNCHANGED <<inputs, locals, result, raised, chain, broadcast>>

\* line 96: create_swap_transaction gets the Web3Helper instance
CreateBegin ==
    /\ pc = "create_begin"
    /\ \/ Goto("amount2")
       \/ Fail("get_instance")
    /\ UNCHANGED <<inputs, locals, result, raised, chain, calls, broadcast>>

\* lines 101-118 and 164: fetch the swap transaction; read its "tx" entry
GetSwap ==
    /\ pc = "get_swap"
    /\ \/ /\ Log("get_swap", TRUE, None)
          /\ \E g \in 1..MaxGasPrice :
                swap_data' = [to |-> <<"r", "t">>, gasPrice |-> g,
                              data |-> <<"swap", swap_amount>>,
                              value |-> IF IsNativeAmount(from_token)
                                           THEN swap_amount ELSE 0]
          /\ Goto("swap_nonce")
       \/ /\ Log("get_swap", TRUE, None)
          /\ pc' = "exec_except"
          /\ exc' = "KeyError"
          /\ firstError' = IF firstError = NoError THEN "KeyError"
                                                   ELSE firstError
          /\ UNCHANGED swap_data
       \/ /\ Log("get_swap", FALSE, None)
          /\ Fail("get_swap")
          /\ UNCHANGED swap_data
    /\ UNCHANGED <<inputs, wallet, raw_amount, current_allowance, gas_price,
                   nonce, approve_tx, approve_data, swap_amount, result,
                   raised, chain, broadcast>>

\* lines 120-122: except block of create_swap_transaction
CreateExcept ==
    /\ pc = "create_except"
    /\ exc' = ReRaise(exc, "create_swap_transaction")
    /\ pc' = "exec_except"
    /\ UNCHANGED <<inputs, locals, result, raised, chain, calls, broadcast,
                   firstError>>

\* line 165: nonce = get_transaction_count(user_address)
SwapNonce ==
    /\ pc = "swap_nonce"
    /\ \/ /\ Log("get_transaction_count", TRUE, None)
          /\ nonce' = txCount[wallet.address]
          /\ Goto("swap_send")
       \/ /\ Log("get_transaction_count", FALSE, None)
          /\ Fail("get_transaction_count")
          /\ UNCHANGED nonce
    /\ UNCHANGED <<inputs, wallet, raw_amount, current_allowance, gas_price,
                   approve_tx, approve_data, swap_amount, swap_data, result,
                   raised, chain, broadcast>>

\* lines 167-175: the swap transaction
SwapTransaction ==
    [nonce |-> nonce, to |-> swap_data.to, gasPrice |-> Pad(swap_data.gasPrice),
     data |-> swap_data.data, value |-> swap_data.value, chainId |-> chain_id]

\* lines 178-180: send the swap, signed with wallet's key; return its hash
SwapSend ==
    /\ pc = "swap_send"
    /\ LET tx  == SwapTransaction
           key == wallet.private_key
       IN \/ /\ SendTransaction(tx, key)
             /\ Log("send_transaction", TRUE, TxHash(tx, key))
             /\ result' = TxHash(tx, key)
             /\ Goto("done")
          \/ /\ Log("send_transaction", FALSE, TxHash(tx, key))
             /\ Fail("send_transaction")
             /\ UNCHANGED <<result, chain, broadcast>>
    /\ UNCHANGED <<inputs, locals, raised>>

\* lines 182-184: except block of execute_swap; the error leaves the call
ExecExcept ==
    /\ pc = "exec_except"
    /\ raised' = ReRaise(exc, "execute_swap")
    /\ pc' = "raised"
    /\ UNCHANGED <<inputs, locals, result, exc, chain, calls, broadcast,
                   firstError>>

\* the chain mines a pending transaction whose nonce is its sender's next
\* one; a mined approval sets the sender's allowance
Mine ==
    /\ \E t \in pending :
          /\ t.nonce = txCount[t.from]
          /\ txCount' = [txCount EXCEPT ![t.from] = @ + 1]
          /\ mined' = mined \cup {t.hash}
          /\ pending' = pending \ {t}
          /\ allowance' = IF t.data[1] = "approve"
                             THEN [allowance EXCEPT ![t.from] = t.data[2]]
                             ELSE allowance
    /\ UNCHANGED <<pc, inputs, locals, result, exc, raised, calls, broadcast,
                   firstError>>

Next ==
    \/ Begin
    \/ GetAmountInWei(1)
    \/ AmountExcept(1)
    \/ CnaBegin
    \/ GetApproveTransaction
    \/ GetAllowance
    \/ GasPrice
    \/ ApproveNonce
    \/ ApproveSend
    \/ CnaExcept
    \/ WaitReceipt
    \/ CreateBegin
    \/ GetAmountInWei(2)
    \/ AmountExcept(2)
    \/ GetSwap
    \/ CreateExcept
    \/ SwapNonce
    \/ SwapSend
    \/ ExecExcept
    \/ Mine

Spec == Init /\ [][Next]_vars

\* the steps of the program itself (everything but the chain's mining)
ProgramNext ==
    \/ Begin \/ GetAmountInWei(1) \/ AmountExcept(1) \/ CnaBegin
    \/ GetApproveTransaction \/ GetAllowance \/ GasPrice \/ ApproveNonce
    \/ ApproveSend \/ CnaExcept \/ WaitReceipt \/ CreateBegin
    \/ GetAmountInWei(2) \/ AmountExcept(2) \/ GetSwap \/ CreateExcept
    \/ SwapNonce \/ SwapSend \/ ExecExcept

\* --------------------------------------------------- vocabulary of claims
\* the source token spells the native sentinel in some mix of cases
SourceIsNative == \A i \in DOMAIN from_token : from_token[i] \in {"e", "E"}

Calls(name)      == {i \in DOMAIN calls : calls[i].name = name}
OkCalls(name)    == {i \in Calls(name) : calls[i].ok}
Sends(kind)      == {i \in Calls("send_transaction") : calls[i].arg[4] = kind}
OkSends(kind)    == {i \in Sends(kind) : calls[i].ok}
Broadcasts(kind) == {i \in DOMAIN broadcast : broadcast[i].tx.data[1] = kind}
NamesOfCalls     == [i \in DOMAIN calls |-> calls[i].name]
AllowanceRead    == OkCalls("get_allowance") # {}

\* positions that execute_swap reaches only after check_and_approve returned
PostApprove == {"wait_receipt", "create_begin", "amount2", "amount_except2",
                "get_swap", "create_except", "swap_nonce", "swap_send", "done"}

\* ------------------------------------------------------------------ claims
\* C1: the steps of a run happen in the order approval send, wait for that
\* approval's receipt, get_swap, swap send: once an approval was sent, get_swap
\* is not called and the swap is not sent before the wait for that approval's
\* hash has returned, and the swap is never sent before get_swap has returned.
C1_StepOrder ==
    /\ \A j \in OkSends("approve") :
          \A i \in Calls("get_swap") \cup Sends("swap") :
             \E k \in OkCalls("wait_for_transaction_receipt") :
                /\ calls[k].arg = calls[j].arg
                /\ j < k
                /\ k < i
    /\ \A i \in Sends("swap") : \E g \in OkCalls("get_swap") : g < i
    /\ \A w \in Calls("wait_for_transaction_receipt") :
          \E j \in OkSends("approve") : j < w /\ calls[w].arg = calls[j].arg

C1_Witness ==
    /\ pc = "done"
    /\ OkSends("approve") # {}
    /\ OkSends("swap") # {}

\* C2: a run ends either returning the hash that the send of the swap
\* transaction returned, or raising the first error raised by any step; it
\* never returns a hash after a failed step, never the approval's hash, and
\* never raises a later error in place of the first.
C2_Outcome ==
    /\ pc = "done" =>
          /\ firstError = NoError
          /\ raised = NoError
          /\ Len(calls) > 0
          /\ calls[Len(calls)] = Call("send_transaction", TRUE, result)
          /\ result[4] = "swap"
          /\ result # approve_tx
    /\ pc = "raised" =>
          /\ firstError # NoError
          /\ raised = firstError
    /\ firstError # NoError => result = None
    /\ pc # "done" => result = None
    /\ pc # "raised" => raised = NoError
    /\ pc \notin {"done", "raised"} => ENABLED ProgramNext
    /\ pc \in {"done", "raised"} => ~ ENABLED ProgramNext

C2_Witness ==
    /\ pc = "raised"
    /\ raised = "get_allowance"
    /\ approve_tx = None

\* C3 as stated: the approval transaction is fetched from the aggregator only
\* when the source token is not native and the wallet's current allowance is
\* less than the required amount.
C3_FetchOnlyIfNeeded ==
    (Calls("get_approve_transaction") # {} /\ mined = {}) =>
        /\ ~ SourceIsNative
        /\ allowance[wallet.address] < raw_amount

\* C3 amended: the approval transaction is fetched exactly once for every
\* source token that is not native, before the allowance is read and whatever
\* the allowance is, and never for the native token; only the broadcast of the
\* approval depends on the allowance being less than the required amount.
C3_FetchForEveryToken ==
    /\ Calls("get_approve_transaction") # {} => ~ SourceIsNative
    /\ Cardinality(Calls("get_approve_transaction")) <= 1
    /\ \A a \in Calls("get_allowance") :
          \E f \in OkCalls("get_approve_transaction") : f < a
    /\ (~ SourceIsNative /\ pc \in PostApprove) =>
          /\ OkCalls("get_approve_transaction") # {}
          /\ AllowanceRead
    /\ Broadcasts("approve") # {} =>
          /\ AllowanceRead
          /\ current_allowance < raw_amount

C3_Witness ==
    /\ pc = "create_begin"
    /\ OkCalls("get_approve_transaction") # {}
    /\ AllowanceRead
    /\ current_allowance >= raw_amount
    /\ Broadcasts("approve") = {}

\* C4 as stated: a run makes never more than three external calls.
C4_AtMostThreeCalls == Len(calls) <= 3

\* C4 amended: a run with the native source token makes at most three
\* external calls (get_swap, get_transaction_count, send_transaction when it
\* succeeds); a run with another source token makes at most eleven: seven
\* when it succeeds without an approval and eleven when it succeeds with one.
C4_CallCounts ==
    /\ SourceIsNative => Len(calls) <= 3
    /\ Len(calls) <= 11
    /\ (pc = "done" /\ SourceIsNative) =>
          NamesOfCalls = <<"get_swap", "get_transaction_count",
                           "send_transaction">>
    /\ (pc = "done" /\ ~ SourceIsNative /\ approve_tx = None) =>
          NamesOfCalls = <<"get_token_decimals", "get_approve_transaction",
                           "get_allowance", "get_token_decimals", "get_swap",
                           "get_transaction_count", "send_transaction">>
    /\ (pc = "done" /\ ~ SourceIsNative /\ approve_tx # None) =>
          NamesOfCalls = <<"get_token_decimals", "get_approve_transaction",
                           "get_allowance", "gas_price",
                           "get_transaction_count", "send_transaction",
                           "wait_for_transaction_receipt",
                           "get_token_decimals", "get_swap",
                           "get_transaction_count", "send_transaction">>

C4_Witness ==
    /\ pc = "done"
    /\ ~ SourceIsNative
    /\ Len(calls) = 11

\* C5: once an external call has failed, no further external call is made and
\* nothing is broadcast, no failed call is made again, and at most one
\* approval and at most one swap transaction are broadcast.
C5_NoRetry ==
    /\ \A i \in DOMAIN calls : ~ calls[i].ok => i = Len(calls)
    /\ (\E i \in DOMAIN calls : ~ calls[i].ok) =>
          /\ firstError # NoError
          /\ result = None
          /\ Len(broadcast) = Cardinality(OkSends("approve"))
          /\ pc \in {"amount_except1", "amount_except2", "cna_except",
                     "create_except", "exec_except", "raised"}
    /\ Cardinality(Sends("approve")) <= 1
    /\ Cardinality(Sends("swap")) <= 1
    /\ Cardinality(Broadcasts("approve")) <= 1
    /\ Cardinality(Broadcasts("swap")) <= 1
    /\ Len(broadcast) = Cardinality(OkCalls("send_transaction"))

C5_Witness ==
    /\ pc = "raised"
    /\ Len(calls) > 0
    /\ calls[Len(calls)] = Call("send_transaction", FALSE, calls[Len(calls)].arg)
    /\ calls[Len(calls)].arg[4] = "approve"
    /\ broadcast = <<>>

\* C6: check_and_approve broadcasts an approval and returns its hash if and
\* only if the allowance it read for the owner is strictly less than the
\* requested amount; when the allowance is greater than or equal to the
\* amount it returns None and reads no gas price, reads no nonce and sends
\* nothing.
C6_ApproveIffInsufficient ==
    /\ (AllowanceRead /\ mined = {}) =>
          current_allowance = allowance[wallet.address]
    /\ (~ SourceIsNative /\ pc \in PostApprove) =>
          /\ approve_tx # None <=> current_allowance < raw_amount
          /\ approve_tx # None <=> Broadcasts("approve") # {}
          /\ approve_tx # None => broadcast[1].hash = approve_tx
    /\ Sends("approve") # {} =>
          /\ AllowanceRead
          /\ current_allowance < raw_amount
    /\ (AllowanceRead /\ current_allowance >= raw_amount) =>
          /\ pc \notin {"gas_price", "approve_nonce", "approve_send",
                        "wait_receipt"}
          /\ Calls("gas_price") = {}
          /\ Sends("approve") = {}
          /\ approve_tx = None
          /\ \A n \in Calls("get_transaction_count") :
                \E g \in OkCalls("get_swap") : g < n

C6_Witness ==
    /\ pc = "create_begin"
    /\ AllowanceRead
    /\ current_allowance = raw_amount
    /\ approve_tx = None
    /\ broadcast = <<>>

\* C7: with the native sentinel as source token, in any mix of cases, a run
\* makes no approval-related call (no get_approve_transaction, no
\* get_allowance, no approval send, no receipt wait) and broadcasts at most
\* one transaction, the swap; with any other source token check_and_approve
\* has been invoked and has returned before the swap is fetched.
C7_NativeSkipsApproval ==
    /\ SourceIsNative =>
          /\ Calls("get_approve_transaction") = {}
          /\ Calls("get_allowance") = {}
          /\ Calls("gas_price") = {}
          /\ Calls("wait_for_transaction_receipt") = {}
          /\ Sends("approve") = {}
          /\ Len(broadcast) <= 1
          /\ Broadcasts("approve") = {}
          /\ approve_tx = None
          /\ pc \notin {"cna_begin", "get_approve_transaction",
                        "get_allowance", "gas_price", "approve_nonce",
                        "approve_send", "cna_except", "wait_receipt"}
    /\ ~ SourceIsNative =>
          \A g \in Calls("get_swap") :
             \E a \in OkCalls("get_allowance") : a < g

C7_Witness ==
    /\ pc = "done"
    /\ from_token = <<"E", "e">>
    /\ Len(broadcast) = 1

\* C8: every transaction a run broadcasts is signed with the private key of
\* the wallet selected by wallet_name, the wallet whose address is the owner
\* and the source of the transaction's nonce.
C8_SignedBySelectedWallet ==
    \A i \in DOMAIN broadcast :
       /\ broadcast[i].key = WalletGet(wallet_name).private_key
       /\ KeyAddress(broadcast[i].key) = wallet.address

\* C9: in a run that broadcasts both an approval and a swap transaction, the
\* swap's nonce is strictly greater than the approval's nonce.
C9_DistinctNonces ==
    \A a \in Broadcasts("approve") :
       \A b \in Broadcasts("swap") :
          broadcast[b].tx.nonce > broadcast[a].tx.nonce
====
